---- MODULE Spec2Model ----
(***************************************************************************)
(* tmuxer: a job manager that maps jobs onto the windows of one tmux       *)
(* session.  The repository holds three revisions of the manager:          *)
(*   A  src/unnamed/part_000  (ids are max+1 over the listed jobs, a kill  *)
(*                             list for the exit sweep, cleanupJobs runs   *)
(*                             its kills through Promise.all)              *)
(*   B  src/unnamed/part_003  (ids come from the in-process nextId         *)
(*                             counters, cleanupJobs is a sequential loop) *)
(*   T  src/src/tools.ts      (fixed session "tmuxer" with the sentinel    *)
(*                             window "main", caller-supplied job ids,     *)
(*                             killJob)                                    *)
(* All authoritative state lives in the tmux server; the model keeps it in *)
(* the variable tm and keeps the manager process's own state beside it.    *)
(* Strings are sequences of one-character strings, so that startsWith,     *)
(* slice, Number and number formatting are computed as the code does.      *)
(***************************************************************************)
EXTENDS Integers, Sequences, FiniteSets, TLC

VARIABLES
    tm,                 \* the tmux server: [exists, wins, hook]
    nextId,             \* B: const nextId: Record<string, number>
    defaultKeepAlive,   \* A: let defaultKeepAlive
    last,               \* the call that produced this state, with its result
    streak,             \* per prefix, the id the latest createJob returned in
                        \* the current run of consecutive createJob calls
    io,                 \* the listJobs or sendInput call in flight: where it
                        \* stands and the send-keys commands tmux ran for it
    cap,                \* getJobOutput: the captured text, lastLines, output
    spawn,              \* B: the env option of a createJob call and the -e
                        \* flags of the new-window command built from it
    calls,              \* two callers whose createJob calls are in flight
                        \* together: per caller, where its call stands
    start,              \* A: createJob after new-window: the pid query, the
                        \* kill list and the startup wait
    sends,              \* A: two callers whose sendInput calls are in
                        \* flight together: per caller, where its call stands
    pane                \* the send-keys commands tmux has run for those
                        \* calls, in the order it ran them

vars == <<tm, nextId, defaultKeepAlive, last, streak, io, cap, spawn, calls,
          start, sends, pane>>

-----------------------------------------------------------------------------
(* Bounds of the model *)

\* window indices 0..MaxIndex are available in the session
MaxIndex == 3
\* the nextId counters of revision B are allocated up to this value
MaxCounter == 2
\* cleanupJobs is called with at most this many ids
MaxJobIds == 2
\* revision A allocates numeric suffixes up to this value
MaxSuffix == 2
\* the text capture-pane prints has at most this many characters
MaxLen == 4
\* getJobOutput is called with lastLines up to this value
MaxLast == 3
\* the text the pid query prints has at most this many characters
MaxPid == 2

-----------------------------------------------------------------------------
(* Strings *)

Digits == <<"0", "1", "2", "3", "4", "5", "6", "7", "8", "9">>

IsDigit(c) == \E k \in 1..10 : Digits[k] = c

DigitVal(c) == (CHOOSE k \in 1..10 : Digits[k] = c) - 1

\* the value of a non-empty string of decimal digits
RECURSIVE DecVal(_)
DecVal(s) ==
    IF s = <<>> THEN 0
    ELSE DecVal(SubSeq(s, 1, Len(s) - 1)) * 10 + DigitVal(s[Len(s)])

AllDigits(s) == \A k \in 1..Len(s) : IsDigit(s[k])

\* JavaScript's NaN, kept apart from every number the model computes with
NaN == -1

\* Number(x) for x a string over letters and digits: "" is 0, a string of
\* digits is its decimal value, every other string is NaN
Number(s) == IF AllDigits(s) THEN DecVal(s) ELSE NaN

\* `${n}` for a number n >= 0, and "NaN" for NaN
RECURSIVE ToStr(_)
ToStr(n) ==
    IF n = NaN THEN <<"N", "a", "N">>
    ELSE IF n < 10 THEN <<Digits[n + 1]>>
    ELSE ToStr(n \div 10) \o <<Digits[(n % 10) + 1]>>

\* String.prototype.startsWith
startsWith(s, p) == Len(p) <= Len(s) /\ SubSeq(s, 1, Len(p)) = p

\* String.prototype.slice(n)
slice(s, n) == SubSeq(s, n + 1, Len(s))

\* Math.max(...xs) over a non-empty sequence of numbers: NaN if any is NaN
MathMax(xs) ==
    IF \E k \in 1..Len(xs) : xs[k] = NaN THEN NaN
    ELSE CHOOSE m \in {xs[k] : k \in 1..Len(xs)} :
             \A k \in 1..Len(xs) : xs[k] <= m

\* NaN + 1 is NaN
PlusOne(n) == IF n = NaN THEN NaN ELSE n + 1

\* the characters /\w/ matches
IsWord(c) == c \notin {"{", "}", "'", "\\", " ", "\n", "-"}

\* the first position at or after i where s holds the character c, 0 if none
RECURSIVE IndexOf(_, _, _)
IndexOf(s, c, i) ==
    IF i > Len(s) THEN 0
    ELSE IF s[i] = c THEN i
    ELSE IndexOf(s, c, i + 1)

\* input.split(/{(\w[^}]*)}/) from position i on, text being the characters
\* of the current piece read so far: the pieces between the matches, with
\* the captured group of each match between them [text, key, text, key, ...]
RECURSIVE SplitKeys(_, _, _)
SplitKeys(s, i, text) ==
    IF i > Len(s) THEN <<text>>
    ELSE LET close == IndexOf(s, "}", i + 2)
         IN  IF s[i] = "{" /\ i + 1 <= Len(s) /\ IsWord(s[i + 1]) /\ close # 0
             THEN <<text, SubSeq(s, i + 1, close - 1)>>
                      \o SplitKeys(s, close + 1, <<>>)
             ELSE SplitKeys(s, i + 1, Append(text, s[i]))

\* str.split('\n') from position i on
RECURSIVE SplitLines(_, _, _)
SplitLines(s, i, text) ==
    IF i > Len(s) THEN <<text>>
    ELSE IF s[i] = "\n" THEN <<text>> \o SplitLines(s, i + 1, <<>>)
    ELSE SplitLines(s, i + 1, Append(text, s[i]))

\* the first n elements instead of the last n
SliceFirst(xs, n) == SubSeq(xs, 1, IF n < Len(xs) THEN n ELSE Len(xs))

\* Array.prototype.slice(-n) for n > 0
SliceLast(xs, n) ==
    SubSeq(xs, (IF Len(xs) - n > 0 THEN Len(xs) - n ELSE 0) + 1, Len(xs))

\* Array.prototype.join(sep)
RECURSIVE join(_, _)
join(xs, sep) ==
    IF xs = <<>> THEN <<>>
    ELSE IF Len(xs) = 1 THEN xs[1]
    ELSE xs[1] \o sep \o join(Tail(xs), sep)

\* String.prototype.trim, for text of letters, spaces and line breaks
RECURSIVE trim(_)
trim(s) ==
    IF s = <<>> THEN s
    ELSE IF Head(s) \in {" ", "\n"} THEN trim(Tail(s))
    ELSE IF s[Len(s)] \in {" ", "\n"} THEN trim(SubSeq(s, 1, Len(s) - 1))
    ELSE s

\* str.replace(/'/g, "'\\''")
RECURSIVE ReplaceQuotes(_)
ReplaceQuotes(s) ==
    IF s = <<>> THEN <<>>
    ELSE (IF Head(s) = "'" THEN <<"'", "\\", "'", "'">> ELSE <<Head(s)>>)
             \o ReplaceQuotes(Tail(s))

\* const esc = (str) => `'${str.replace(/'/g, "'\\''")}'`
esc(str) == <<"'">> \o ReplaceQuotes(str) \o <<"'">>

\* how /bin/sh, which exec runs the command line with, reads the text s into
\* words, from position i on: a single quote opens a quoted stretch that runs
\* to the next single quote, a backslash outside quotes takes the next
\* character as it is, a space outside quotes ends a word.  inq: inside
\* quotes; cur: the word read so far; has: a word has begun.  The result is
\* the words, or ok = FALSE when a quote is left open (a syntax error)
RECURSIVE ShellWords(_, _, _, _, _, _)
ShellWords(s, i, inq, cur, has, words) ==
    IF i > Len(s)
    THEN [ok |-> ~inq, words |-> IF has THEN Append(words, cur) ELSE words]
    ELSE IF inq
    THEN (IF s[i] = "'" THEN ShellWords(s, i + 1, FALSE, cur, TRUE, words)
          ELSE ShellWords(s, i + 1, TRUE, Append(cur, s[i]), TRUE, words))
    ELSE IF s[i] = "'" THEN ShellWords(s, i + 1, TRUE, cur, TRUE, words)
    ELSE IF s[i] = "\\"
    THEN (IF i = Len(s) THEN ShellWords(s, i + 1, FALSE, cur, has, words)
          ELSE ShellWords(s, i + 2, FALSE, Append(cur, s[i + 1]), TRUE, words))
    ELSE IF s[i] = " "
    THEN ShellWords(s, i + 1, FALSE, <<>>, FALSE,
                    IF has THEN Append(words, cur) ELSE words)
    ELSE ShellWords(s, i + 1, FALSE, Append(cur, s[i]), TRUE, words)

sh(s) == ShellWords(s, 1, FALSE, <<>>, FALSE, <<>>)

-----------------------------------------------------------------------------
(* The tmux server, as the manager's commands see it *)

\* a session that does not exist
NoSession == [exists |-> FALSE, wins |-> <<>>, hook |-> FALSE]

\* a window holds one pane: its name, whether the pane is dead and with which
\* status, the remain-on-exit option, whether createJob created it, and
\* whether the pane's pid is in the manager's exit-time kill list (revision A)
Win(name, dead, status, remain, job) ==
    [name |-> name, dead |-> dead, status |-> status, remain |-> remain,
     job |-> job, inKill |-> FALSE]

\* the window the default shell of `new-session` runs in
ShellName == <<"s", "h">>

\* const WINDOW = 'main' (revision T)
WINDOW == <<"m", "a", "i", "n">>

\* window indices in use, in the order list-windows prints them
Indices(s) == DOMAIN s.wins

\* new-window without -t index takes the lowest free index
HasFree(s) == \E i \in 0..MaxIndex : i \notin Indices(s)

FreeIndex(s) ==
    CHOOSE i \in 0..MaxIndex :
        i \notin Indices(s) /\ \A k \in 0..(i - 1) : k \in Indices(s)

\* tmux's lookup of the window part of a target `session:window`, in the order
\* tmux(1) gives: a window index, an exact window name (an error if several
\* windows carry it), the start of a window name (an error if ambiguous).
\* The result is the index found, or -1 when the command fails.
Resolve(s, t) ==
    LET exact  == {i \in Indices(s) : s.wins[i].name = t}
        prefix == {i \in Indices(s) : startsWith(s.wins[i].name, t)}
    IN  IF ~s.exists THEN -1
        ELSE IF t # <<>> /\ AllDigits(t) /\ DecVal(t) \in Indices(s) THEN DecVal(t)
        ELSE IF Cardinality(exact) = 1 THEN CHOOSE i \in exact : TRUE
        ELSE IF Cardinality(exact) > 1 THEN -1
        ELSE IF Cardinality(prefix) = 1 THEN CHOOSE i \in prefix : TRUE
        ELSE -1

\* a function without the point i
Without(f, i) == [k \in (DOMAIN f) \ {i} |-> f[k]]

\* kill-window on window i; a session that loses its last window is destroyed
KillWindow(s, i) ==
    IF Indices(s) = {i} THEN NoSession
    ELSE [s EXCEPT !.wins = Without(s.wins, i)]

\* new-window -d -n name: a live pane at the lowest free index; the
\* after-new-window hook, when installed, sets remain-on-exit on it
NewWindow(s, name) ==
    LET i == FreeIndex(s)
    IN  [s EXCEPT !.wins = [k \in Indices(s) \cup {i} |->
                               IF k = i THEN Win(name, FALSE, 0, s.hook, TRUE)
                               ELSE s.wins[k]]]

\* the pane of window i exits with the given status: with remain-on-exit the
\* dead pane stays, without it tmux closes the window
PaneExit(s, i, status) ==
    IF s.wins[i].remain
    THEN [s EXCEPT !.wins[i].dead = TRUE, !.wins[i].status = status]
    ELSE KillWindow(s, i)

\* the indices of a session in increasing order
RECURSIVE SortedIdx(_)
SortedIdx(S) ==
    IF S = {} THEN <<>>
    ELSE LET m == CHOOSE x \in S : \A y \in S : x <= y
         IN  <<m>> \o SortedIdx(S \ {m})

-----------------------------------------------------------------------------
(* Inputs *)

\* the prefixes createJob is called with: in revision A one prefix extends
\* the other by a letter, in revision B by a digit
PrefixesA == {<<"j">>, <<"j", "s">>}

PrefixesB == {<<"j">>, <<"j", "1">>}

\* the job ids createJob and killJob are called with (revision T): a name, a
\* name it is the start of, a number, and the sentinel's name
JobIdsT == {<<"a">>, <<"a", "b">>, <<"1">>, WINDOW}

\* the keepAlive option of createJob (revision A): given or left out
KeepAliveArgs == {"undefined", "true", "false"}

\* the exit statuses a job's command ends with
ExitCodes == {0, 1}

\* an id no window ever carries
NoSuchJob == <<"x">>

\* the ids cleanupJobs is called with: the names in the session and a stranger
IdPool(s) == {s.wins[i].name : i \in Indices(s)} \cup {NoSuchJob}

\* the id lists of cleanupJobs, of one to MaxJobIds entries
IdLists(s) == UNION {[1..n -> IdPool(s)] : n \in 1..MaxJobIds}

\* what a call leaves in `last`: the operation, its id argument (the prefix
\* or job id; the id list of cleanupJobs is left out, the properties range
\* over it), whether it returned (ok) or threw and with which error, and the
\* ids it returned
Call(op, arg, ret) ==
    [op |-> op, arg |-> arg, ok |-> TRUE, err |-> "", ret |-> ret]

Thrown(op, arg, err) ==
    [op |-> op, arg |-> arg, ok |-> FALSE, err |-> err, ret |-> <<>>]

\* no createJob call has returned since the last step of another kind
NoStreak == [p \in PrefixesA \cup PrefixesB |-> <<>>]

\* the call in flight: the step it is at (pc), its jobId and input, the
\* number of segments of the input dealt with (k), and the send-keys
\* commands that tmux has run for it
Io(pc, id, input, k, sent) ==
    [pc |-> pc, id |-> id, input |-> input, k |-> k, sent |-> sent]

\* no call is in flight
Idle == Io("idle", <<>>, <<>>, 0, <<>>)

\* getJobOutput on its own: the text capture-pane printed (raw), the revision
\* that reads it (rev), the lastLines option (last, 0 when left out), and once
\* the call is done its output and the output of the same call without
\* lastLines (full)
Capture(raw, rev, n, output, full, done) ==
    [raw |-> raw, rev |-> rev, last |-> n, output |-> output, full |-> full,
     done |-> done]

\* no getJobOutput call has been made
NoCapture == Capture(<<>>, "T", 0, <<>>, <<>>, FALSE)

\* a step of the environment leaves no call behind
NoCall(op) == Call(op, <<>>, <<>>)

\* createJob's env option on its own (revision B): the option as given (set
\* is FALSE when it is left out, else map holds the values by name), the
\* words of the -e flags of the new-window command as tmux receives them,
\* and whether the command has been built
Spawn(given, flags, done) == [given |-> given, flags |-> flags, done |-> done]

\* opts.env left out
NoEnv == [set |-> FALSE, map |-> <<>>]

\* no createJob command has been built
NoSpawn == Spawn(NoEnv, <<>>, FALSE)

\* the two callers whose calls may be in flight together
Callers == {1, 2}

\* one caller's createJob call: the step it is at (pc: "idle", "listed" once
\* the id is settled, "created" once new-window has run, "returned",
\* "thrown"), its prefix or jobId argument, the listing it read (snap), the
\* id it settled on, the error it threw, and whether the other call had read
\* the same listing for the same argument before either ran new-window (race)
CallRec(pc, arg, snap, id, err, race) ==
    [pc |-> pc, arg |-> arg, snap |-> snap, id |-> id, err |-> err,
     race |-> race]

Quiet == CallRec("idle", <<>>, <<>>, <<>>, "", FALSE)

NoCalls == [c \in Callers |-> Quiet]

\* createJob from the pid query on (revision A): the step it is at (pc:
\* "idle", "pid" once new-window has run, "capture" once the pid is settled,
\* "wait" in the startup wait, "returned", "thrown"), the text
\* display-message printed, the keepAlive option, the pid, the kill list,
\* the latest captured output, the attempts counter, the number of
\* capture-pane commands run, and the error thrown
Start(pc, text, keepAlive, pid, kill, output, attempts, captures, err) ==
    [pc |-> pc, text |-> text, keepAlive |-> keepAlive, pid |-> pid,
     kill |-> kill, output |-> output, attempts |-> attempts,
     captures |-> captures, err |-> err]

\* no createJob call has reached its pid query
NoStart == Start("idle", <<>>, FALSE, 0, <<>>, <<>>, 0, 0, "")

\* no sendInput call of the two callers is in flight
NoSends == [c \in Callers |-> Idle]

-----------------------------------------------------------------------------
(* Revisions A and B: listJobs *)

\* a row mapping that spreads exitInfo in every row, dead pane or not
JobRowWithExitCode(s, i) ==
    [jobId |-> s.wins[i].name, idx |-> i, running |-> ~s.wins[i].dead,
     exitCode |-> s.wins[i].status]

\* one row of listJobs: exitCode is present only when the pane is dead; idx
\* stands for the pane the row describes (its pid in the code)
JobRow(s, i) ==
    IF s.wins[i].dead
    THEN [jobId |-> s.wins[i].name, idx |-> i, running |-> FALSE,
          exitCode |-> s.wins[i].status]
    ELSE [jobId |-> s.wins[i].name, idx |-> i, running |-> TRUE]

RECURSIVE Rows(_, _)
Rows(s, idxs) ==
    IF idxs = <<>> THEN <<>>
    ELSE <<JobRow(s, Head(idxs))>> \o Rows(s, Tail(idxs))

\* listJobs: no session gives [], the row of window index 0 is skipped
listJobs(s) ==
    IF ~s.exists THEN <<>>
    ELSE Rows(s, SortedIdx(Indices(s) \ {0}))

\* jobs.find((j) => j.jobId === jobId): the first row of that name, if any
HasJob(jobs, id) == \E k \in 1..Len(jobs) : jobs[k].jobId = id

FindJob(jobs, id) ==
    jobs[CHOOSE k \in 1..Len(jobs) :
            jobs[k].jobId = id /\ \A m \in 1..(k - 1) : jobs[m].jobId # id]

\* the ids of a listing
JobIds(jobs) == [k \in 1..Len(jobs) |-> jobs[k].jobId]

-----------------------------------------------------------------------------
(* Revisions A and B: ensureSession *)

\* if has-session fails: new-session (window 0 runs the default shell, made
\* before the hook exists), then set-hook after-new-window
ensureSession(s) ==
    IF s.exists THEN s
    ELSE [exists |-> TRUE,
          wins   |-> (0 :> Win(ShellName, FALSE, 0, FALSE, FALSE)),
          hook   |-> TRUE]

-----------------------------------------------------------------------------
(* Revision B: createJob and cleanupJobs *)

\* nextId[prefix] ??= 1
Counter(p) == IF nextId[p] = 0 THEN 1 ELSE nextId[p]

\* const id = `${prefix}${nextId[prefix]++}`
NextIdB(p) == p \o ToStr(Counter(p))

B_createJob(p) ==
    LET s1 == ensureSession(tm)
        id == NextIdB(p)
        s2 == NewWindow(s1, id)
        \* display-message and capture-pane address the window by its name
        ok == Resolve(s2, id) # -1
    IN  /\ Counter(p) <= MaxCounter
        /\ HasFree(s1)
        /\ nextId' = [nextId EXCEPT ![p] = Counter(p) + 1]
        /\ tm' = s2
        /\ last' = IF ok THEN Call("createJob", p, <<id>>)
                         ELSE Thrown("createJob", p, "tmux")
        /\ streak' = IF ok THEN [streak EXCEPT ![p] = id] ELSE streak
        /\ UNCHANGED <<io, cap, spawn, calls, start, sends, pane>>
        /\ UNCHANGED defaultKeepAlive

\* the loop of cleanupJobs over jobIds[k..], from tmux state s: the state it
\* leaves, the `cleaned` list, and the windows kill-window destroyed
RECURSIVE CleanupLoop(_, _, _, _, _, _)
CleanupLoop(jobs, jobIds, k, s, cleaned, killed) ==
    IF k > Len(jobIds) THEN [s |-> s, cleaned |-> cleaned, killed |-> killed]
    ELSE LET id == jobIds[k]
             w  == Resolve(s, id)
         IN  IF ~HasJob(jobs, id) \/ FindJob(jobs, id).running
             THEN CleanupLoop(jobs, jobIds, k + 1, s, cleaned, killed)
             ELSE \* kill-window, its failure caught and dropped; then push
                  CleanupLoop(jobs, jobIds, k + 1,
                              IF w = -1 THEN s ELSE KillWindow(s, w),
                              Append(cleaned, id),
                              IF w = -1 THEN killed ELSE killed \cup {w})

B_cleanupJobs(jobIds) ==
    LET r == CleanupLoop(listJobs(tm), jobIds, 1, tm, <<>>, {})
    IN  /\ tm' = r.s
        /\ last' = Call("cleanupJobs", <<>>, r.cleaned)
        /\ streak' = NoStreak
        /\ UNCHANGED <<io, cap, spawn, calls, start, sends, pane>>
    /\ UNCHANGED <<nextId, defaultKeepAlive>>

\* what getJobOutput does without the lookup in listJobs (as in
\* src/src/tools.ts:123-136): capture-pane on whatever the target finds
CaptureUnchecked(s, id) ==
    IF Resolve(s, id) = -1 THEN Thrown("getJobOutput", id, "tmux")
    ELSE Call("getJobOutput", id, <<Resolve(s, id)>>)

\* getJobOutput: the job is looked up in listJobs first, `Job not found` if
\* it is not there; then capture-pane -t session:jobId.  The result names the
\* window whose text was captured
JobOutput(s, id) ==
    IF ~HasJob(listJobs(s), id) THEN Thrown("getJobOutput", id, "notfound")
    ELSE IF Resolve(s, id) = -1 THEN Thrown("getJobOutput", id, "tmux")
    ELSE Call("getJobOutput", id, <<Resolve(s, id)>>)

\* the prefix createJob is called with where getJobOutput and sendInput are
\* studied
PrefixesS == {<<"j">>}

\* the ids getJobOutput and sendInput are called with: the window names of
\* the session, a stranger, the start of the generated names, and a number
ProbeIds(s) == IdPool(s) \cup {<<"j">>, <<"1">>}

B_getJobOutput(id) ==
    /\ last' = JobOutput(tm, id)
    /\ streak' = NoStreak
    /\ UNCHANGED <<tm, nextId, defaultKeepAlive, io, cap, spawn, calls, start, sends, pane>>

\* the inputs of sendInput: text and a key, two keys, braces that are no key,
\* a key the shell cannot read, nothing, text with a quote and a space
InputsB ==
    { <<"a", "{", "E", "}">>,
      <<"{", "E", "}", "{", "E", "}">>,
      <<"{", "}", "a">>,
      <<"a", "{", "E", "'", "}">>,
      <<>>,
      <<"'", " ", "a">> }

\* const parts = input.split(/{(\w[^}]*)}/)
Parts(input) == SplitKeys(input, 1, <<>>)

\* a loop that does not skip the empty segments
NextPartAny(parts, k) == k

\* the loop's `if (!parts[i]) continue`: the first segment from k on that is
\* not empty, Len(parts) + 1 if there is none
RECURSIVE NextPart(_, _)
NextPart(parts, k) ==
    IF k > Len(parts) THEN k
    ELSE IF parts[k] # <<>> THEN k
    ELSE NextPart(parts, k + 1)

\* the value with text and key segments exchanged
SendValueSwapped(parts, k) ==
    IF (k - 1) % 2 = 0 THEN parts[k] ELSE <<"-", "l", " ">> \o esc(parts[k])

\* const value = i % 2 ? parts[i] : `-l ${esc(parts[i])}`, for i = k - 1
SendValue(parts, k) ==
    IF (k - 1) % 2 = 1 THEN parts[k] ELSE <<"-", "l", " ">> \o esc(parts[k])

\* a send-keys command tmux ran: the window it reached, whether it carried
\* the flag -l, and the keys or text after the flags
Invocation(w, words) ==
    [w    |-> w,
     lit  |-> Len(words) > 0 /\ words[1] = <<"-", "l">>,
     keys |-> IF Len(words) > 0 /\ words[1] = <<"-", "l">>
              THEN Tail(words) ELSE words]

\* sendInput up to its loop: the job is looked up in listJobs
B_sendInput_begin(id, input) ==
    /\ io = Idle
    /\ IF ~HasJob(listJobs(tm), id)
       THEN io' = Idle /\ last' = Thrown("sendInput", <<id, input>>, "notfound")
       ELSE io' = Io("sendInput", id, input, 0, <<>>) /\ last' = NoCall("pending")
    /\ streak' = NoStreak
    /\ UNCHANGED <<tm, nextId, defaultKeepAlive, cap, spawn, calls, start, sends, pane>>

\* one turn of the loop that sends: await tmux(`send-keys -t ${paneId}
\* ${value}`), the command line read by the shell, the target by tmux; a
\* failure of either rejects the call
B_sendInput_send ==
    LET parts == Parts(io.input)
        k     == NextPart(parts, io.k + 1)
        r     == sh(SendValue(parts, k))
        w     == Resolve(tm, io.id)
    IN  /\ io.pc = "sendInput"
        /\ k <= Len(parts)
        /\ IF ~r.ok \/ w = -1
           THEN io' = Idle /\ last' = Thrown("sendInput", <<io.id, io.input>>, "tmux")
           ELSE /\ io' = [io EXCEPT !.k = k,
                                    !.sent = Append(@, Invocation(w, r.words))]
                /\ last' = NoCall("pending")
        /\ streak' = NoStreak
        /\ UNCHANGED <<tm, nextId, defaultKeepAlive, cap, spawn, calls, start, sends, pane>>

\* after the loop: the wait, then capture-pane -t paneId -p; the call
\* returns, or rejects when the target finds no window
B_sendInput_end ==
    LET parts == Parts(io.input)
    IN  /\ io.pc = "sendInput"
        /\ NextPart(parts, io.k + 1) > Len(parts)
        /\ io' = Idle
        /\ last' = IF Resolve(tm, io.id) = -1
                   THEN Thrown("sendInput", <<io.id, io.input>>, "tmux")
                   ELSE Call("sendInput", <<io.id, io.input>>, io.sent)
        /\ streak' = NoStreak
        /\ UNCHANGED <<tm, nextId, defaultKeepAlive, cap, spawn, calls, start, sends, pane>>

\* hideFromTools.ensureSession, the startup hook
B_ensureSession ==
    /\ tm' = ensureSession(tm)
    /\ last' = Call("ensureSession", <<>>, <<>>)
    /\ streak' = NoStreak
    /\ UNCHANGED <<io, cap, spawn, calls, start, sends, pane>>
    /\ UNCHANGED <<nextId, defaultKeepAlive>>

\* the manager process ends and a new one starts in the same directory: the
\* module is loaded again, so nextId is {} again; the session stays
B_restart ==
    /\ nextId' = [p \in PrefixesB |-> 0]
    /\ last' = NoCall("restart")
    /\ streak' = NoStreak
    /\ UNCHANGED <<io, cap, spawn, calls, start, sends, pane>>
    /\ UNCHANGED <<tm, defaultKeepAlive>>

-----------------------------------------------------------------------------
(* Revision A: createJob and cleanupJobs *)

\* jobs.map((j) => j.startsWith(prefix) && j.slice(prefix.length)).map(Number):
\* Number(false) is 0
SuffixNumbers(jobs, p) ==
    [k \in 1..Len(jobs) |->
        IF startsWith(jobs[k], p) THEN Number(slice(jobs[k], Len(p))) ELSE 0]

\* const maxId = ids.length ? Math.max(...ids.map(Number)) : 0
MaxId(jobs, p) == IF Len(jobs) = 0 THEN 0 ELSE MathMax(SuffixNumbers(jobs, p))

\* const id = `${prefix}${maxId + 1}`
NextIdA(jobs, p) == p \o ToStr(PlusOne(MaxId(jobs, p)))

A_createJob(p, ka) ==
    LET keepAlive == IF ka = "undefined" THEN defaultKeepAlive ELSE ka = "true"
        s1 == ensureSession(tm)
        jobs == JobIds(listJobs(s1))
        id == NextIdA(jobs, p)
        s2 == NewWindow(s1, id)
        \* display-message -p -t target "#{pane_pid}": the pane the name finds
        w  == Resolve(s2, id)
        s3 == IF w # -1 /\ ~keepAlive
              THEN [s2 EXCEPT !.wins[w].inKill = TRUE]
              ELSE s2
    IN  /\ PlusOne(MaxId(jobs, p)) <= MaxSuffix
        /\ HasFree(s1)
        /\ defaultKeepAlive' = keepAlive
        /\ tm' = s3
        /\ last' = IF w # -1 THEN Call("createJob", p, <<id>>)
                            ELSE Thrown("createJob", p, "tmux")
        /\ streak' = IF w # -1 THEN [streak EXCEPT ![p] = id] ELSE streak
        /\ UNCHANGED <<io, cap, spawn, calls, start, sends, pane>>
        /\ UNCHANGED nextId

\* the ids of jobIds whose job the snapshot holds and shows not running, in
\* the order of jobIds: these are the kill-window commands issued, and
\* `cleaned` after the filter
RECURSIVE DeadIds(_, _)
DeadIds(jobs, jobIds) ==
    IF jobIds = <<>> THEN <<>>
    ELSE (IF HasJob(jobs, Head(jobIds)) /\ ~FindJob(jobs, Head(jobIds)).running
          THEN <<Head(jobIds)>> ELSE <<>>) \o DeadIds(jobs, Tail(jobIds))

\* kill-window for each target in turn, without the catch: the first
\* failure ends the batch
RECURSIVE KillAllUntilFailure(_, _)
KillAllUntilFailure(s, targets) ==
    IF targets = <<>> THEN s
    ELSE LET w == Resolve(s, Head(targets))
         IN  IF w = -1 THEN s
             ELSE KillAllUntilFailure(KillWindow(s, w), Tail(targets))

\* kill-window for each target in turn, a failure caught and dropped
RECURSIVE KillAll(_, _)
KillAll(s, targets) ==
    IF targets = <<>> THEN s
    ELSE LET w == Resolve(s, Head(targets))
         IN  KillAll(IF w = -1 THEN s ELSE KillWindow(s, w), Tail(targets))

\* the orders in which n commands started together reach the tmux server
Orders(n) == {f \in [1..n -> 1..n] : \A a, b \in 1..n : f[a] = f[b] => a = b}

A_cleanupJobs(jobIds) ==
    LET targets == DeadIds(listJobs(tm), jobIds)
    IN  /\ \E f \in Orders(Len(targets)) :
               tm' = KillAll(tm, [k \in 1..Len(targets) |-> targets[f[k]]])
        /\ last' = Call("cleanupJobs", <<>>, targets)
        /\ streak' = NoStreak
        /\ UNCHANGED <<io, cap, spawn, calls, start, sends, pane>>
    /\ UNCHANGED <<nextId, defaultKeepAlive>>

\* hideFromTools.ensureSession(), the startup hook: session = sid and
\* keepAlive = defaultKeepAlive are written back unchanged
A_ensureSession ==
    /\ tm' = ensureSession(tm)
    /\ last' = Call("ensureSession", <<>>, <<>>)
    /\ streak' = NoStreak
    /\ UNCHANGED <<io, cap, spawn, calls, start, sends, pane>>
    /\ UNCHANGED <<nextId, defaultKeepAlive>>

\* listJobs, its two commands apart.  First `if (await noSession(sid))
\* return []`: has-session
A_listJobs_check ==
    /\ io = Idle
    /\ IF ~tm.exists
       THEN io' = Idle /\ last' = Call("listJobs", <<>>, <<>>)
       ELSE io' = Io("listJobs", <<>>, <<>>, 0, <<>>) /\ last' = NoCall("pending")
    /\ streak' = NoStreak
    /\ UNCHANGED <<tm, nextId, defaultKeepAlive, cap, spawn, calls, start, sends, pane>>

\* then list-windows, outside any try: when it fails the call rejects
A_listJobs_query ==
    /\ io.pc = "listJobs"
    /\ io' = Idle
    /\ last' = IF tm.exists THEN Call("listJobs", <<>>, JobIds(listJobs(tm)))
               ELSE Thrown("listJobs", <<>>, "tmux")
    /\ streak' = NoStreak
    /\ UNCHANGED <<tm, nextId, defaultKeepAlive, cap, spawn, calls, start, sends, pane>>

\* cleanupJobs, its commands apart.  First listJobs and the choice of the
\* ids to kill: io.id holds `cleaned`, io.input the ids whose kill-window has
\* not reached tmux yet
A_cleanup_begin(jobIds) ==
    LET targets == DeadIds(listJobs(tm), jobIds)
    IN  /\ io = Idle
        /\ io' = Io("cleanupJobs", targets, targets, 0, <<>>)
        /\ last' = NoCall("pending")
        /\ streak' = NoStreak
        /\ UNCHANGED <<tm, nextId, defaultKeepAlive, cap, spawn, calls, start, sends, pane>>

\* a sequence without its j-th element
Drop(xs, j) == SubSeq(xs, 1, j - 1) \o SubSeq(xs, j + 1, Len(xs))

\* one of the kill-window commands started together reaches tmux; io.sent
\* holds the windows destroyed, each with the state of its pane at that
\* moment; a failure is caught and dropped
A_cleanup_kill(j) ==
    LET w == Resolve(tm, io.input[j])
    IN  /\ io.pc = "cleanupJobs"
        /\ j \in 1..Len(io.input)
        /\ tm' = IF w = -1 THEN tm ELSE KillWindow(tm, w)
        /\ io' = [io EXCEPT
                     !.input = Drop(@, j),
                     !.k = @ + 1,
                     !.sent = IF w = -1 THEN @
                              ELSE Append(@, [w |-> w, name |-> tm.wins[w].name,
                                              dead |-> tm.wins[w].dead])]
        /\ last' = NoCall("pending")
        /\ streak' = NoStreak
        /\ UNCHANGED <<nextId, defaultKeepAlive, cap, spawn, calls, start, sends, pane>>

\* Promise.all has settled: return { cleaned }
A_cleanup_end ==
    /\ io.pc = "cleanupJobs"
    /\ io.input = <<>>
    /\ io' = Idle
    /\ last' = Call("cleanupJobs", <<>>, io.id)
    /\ streak' = NoStreak
    /\ UNCHANGED <<tm, nextId, defaultKeepAlive, cap, spawn, calls, start, sends, pane>>

\* const kill: number[]: the panes whose pid createJob pushed, as far as
\* their windows still exist (the pid of a window that is gone names no
\* process group any more)
KillList(s) ==
    IF s.exists THEN SortedIdx({i \in Indices(s) : s.wins[i].inKill}) ELSE <<>>

\* a sweep that signals every job that is alive, listed or not
SweepEveryJob(s, pids) ==
    IF s.exists
    THEN SortedIdx({i \in Indices(s) : s.wins[i].job /\ ~s.wins[i].dead})
    ELSE <<>>

\* kill.forEach((p) => canFail(() => process.kill(-p))): process.kill throws
\* for a group whose process has exited, canFail drops the error; the result
\* is the panes whose group got the signal
RECURSIVE Sweep(_, _)
Sweep(s, pids) ==
    IF pids = <<>> THEN <<>>
    ELSE (IF s.wins[Head(pids)].dead THEN <<>> ELSE <<Head(pids)>>)
             \o Sweep(s, Tail(pids))

\* process.on('exit'): the manager process ends, the sweep runs; a manager
\* started afterwards has an empty kill list and defaultKeepAlive = false
A_exit ==
    /\ last' = Call("sweep", <<>>, Sweep(tm, KillList(tm)))
    /\ tm' = [tm EXCEPT !.wins = [i \in DOMAIN tm.wins |->
                                     [tm.wins[i] EXCEPT !.inKill = FALSE]]]
    /\ defaultKeepAlive' = FALSE
    /\ streak' = NoStreak
    /\ UNCHANGED <<nextId, io, cap, spawn, calls, start, sends, pane>>

-----------------------------------------------------------------------------
(* Revision T: ensureSession, createJob, listJobs, killJob *)

\* the dead "main" window: set-option remain-on-exit on, then
\* respawn-pane -k 'exit 0', both addressed as tmuxer:main
DeadMain(s, w) ==
    [s EXCEPT !.wins[w].remain = TRUE, !.wins[w].dead = TRUE, !.wins[w].status = 0]

\* new-window -d -n main, without a command: a shell, not a job
NewMain(s) ==
    LET i == FreeIndex(s)
    IN  [s EXCEPT !.wins = [k \in Indices(s) \cup {i} |->
                               IF k = i THEN Win(WINDOW, FALSE, 0, s.hook, FALSE)
                               ELSE s.wins[k]]]

\* an ensureSession without the select-window probe: the sentinel is made
\* again whenever the session exists
T_ensureNoProbe(s) ==
    IF ~s.exists
    THEN [s  |-> [exists |-> TRUE,
                  wins   |-> (0 :> Win(WINDOW, TRUE, 0, TRUE, FALSE)),
                  hook   |-> TRUE],
          ok |-> TRUE]
    ELSE IF ~HasFree(s) THEN [s |-> s, ok |-> FALSE]
    ELSE LET s1 == NewMain(s)
             w  == Resolve(s1, WINDOW)
         IN  IF w = -1 THEN [s |-> s1, ok |-> FALSE]
             ELSE [s |-> [KillWindow(DeadMain(s1, w), 0) EXCEPT !.hook = TRUE],
                   ok |-> TRUE]

\* ensureSession: the state it leaves and whether it returned (ok) or threw
T_ensure(s) ==
    IF ~s.exists
    THEN \* new-session -d -s tmuxer -n main, then the dead main window
         [s  |-> [exists |-> TRUE,
                  wins   |-> (0 :> Win(WINDOW, TRUE, 0, TRUE, FALSE)),
                  hook   |-> TRUE],
          ok |-> TRUE]
    ELSE IF Resolve(s, WINDOW) # -1
    THEN \* select-window finds a main window
         [s |-> [s EXCEPT !.hook = TRUE], ok |-> TRUE]
    ELSE LET s1 == NewMain(s)
             w  == Resolve(s1, WINDOW)
             \* kill-window -t tmuxer:0
             s2 == KillWindow(DeadMain(s1, w), 0)
         IN  IF w = -1 THEN [s |-> s1, ok |-> FALSE]
             ELSE IF ~s2.exists THEN [s |-> s2, ok |-> FALSE]
             ELSE [s |-> [s2 EXCEPT !.hook = TRUE], ok |-> TRUE]

\* the window names list-windows prints
WindowNames(s) == {s.wins[i].name : i \in Indices(s)}

RECURSIVE RowsT(_, _)
RowsT(s, idxs) ==
    IF idxs = <<>> THEN <<>>
    ELSE (IF s.wins[Head(idxs)].name # WINDOW
          THEN <<[jobId |-> s.wins[Head(idxs)].name, idx |-> Head(idxs)]>>
          ELSE <<>>) \o RowsT(s, Tail(idxs))

\* listJobs: no session gives [], the windows named main are hidden
listJobsT(s) ==
    IF ~s.exists THEN <<>> ELSE RowsT(s, SortedIdx(Indices(s)))

T_ensureSession ==
    /\ ~tm.exists \/ Resolve(tm, WINDOW) # -1 \/ HasFree(tm)
    /\ tm' = T_ensure(tm).s
    /\ last' = IF T_ensure(tm).ok THEN Call("ensureSession", <<>>, <<>>)
               ELSE Thrown("ensureSession", <<>>, "tmux")
    /\ streak' = NoStreak
    /\ UNCHANGED <<io, cap, spawn, calls, start, sends, pane>>
    /\ UNCHANGED <<nextId, defaultKeepAlive>>

T_createJob(id) ==
    LET e  == T_ensure(tm)
        s2 == NewWindow(e.s, id)
    IN  /\ ~tm.exists \/ Resolve(tm, WINDOW) # -1 \/ HasFree(tm)
        /\ IF ~e.ok
           THEN tm' = e.s /\ last' = Thrown("createJob", id, "tmux")
           ELSE IF id \in WindowNames(e.s)
           THEN \* throw new Error(`Job "${id}" already exists`)
                tm' = e.s /\ last' = Thrown("createJob", id, "exists")
           ELSE /\ HasFree(e.s)
                /\ tm' = s2
                   \* select-window -t tmuxer:id
                /\ last' = IF Resolve(s2, id) # -1
                           THEN Call("createJob", id, <<id>>)
                           ELSE Thrown("createJob", id, "tmux")
        /\ streak' = NoStreak
        /\ UNCHANGED <<io, cap, spawn, calls, start, sends, pane>>
    /\ UNCHANGED <<nextId, defaultKeepAlive>>

\* kill-window -t tmuxer:id; it throws when tmux finds no window
T_killJob(id) ==
    LET w == Resolve(tm, id)
    IN  /\ IF w = -1
           THEN tm' = tm /\ last' = Thrown("killJob", id, "tmux")
           ELSE tm' = KillWindow(tm, w) /\ last' = Call("killJob", id, <<>>)
        /\ streak' = NoStreak
        /\ UNCHANGED <<io, cap, spawn, calls, start, sends, pane>>
    /\ UNCHANGED <<nextId, defaultKeepAlive>>

\* what getJobStatus returns: list-panes -t tmuxer:jobId prints the pane of
\* the window the target finds (pid stands for that pane); when the command
\* fails the catch returns `Job not found`
JobStatus(s, id) ==
    LET w == Resolve(s, id)
    IN  IF w = -1
        THEN [jobId |-> id, running |-> FALSE, error |-> "Job not found"]
        ELSE IF s.wins[w].dead
        THEN [jobId |-> id, running |-> FALSE, pid |-> w,
              exitCode |-> s.wins[w].status]
        ELSE [jobId |-> id, running |-> TRUE, pid |-> w]

T_getJobStatus(id) ==
    /\ last' = Call("getJobStatus", id, <<JobStatus(tm, id)>>)
    /\ streak' = NoStreak
    /\ UNCHANGED <<tm, nextId, defaultKeepAlive, io, cap, spawn, calls, start, sends, pane>>

-----------------------------------------------------------------------------
(* getJobOutput: what it returns of the captured text *)

\* the texts capture-pane prints: lines of "a" and line breaks
Buffers == UNION {[1..n -> {"a", "\n"}] : n \in 0..MaxLen}

\* the stdout getJobOutput works on: revision A's tmux helper trims it,
\* revision T's does not
stdoutOf(raw, rev) == IF rev = "A" THEN trim(raw) ELSE raw

\* if (lastLines && lastLines > 0) stdout.split('\n').slice(-lastLines)
\*    .join('\n'), else stdout
getJobOutput(stdout, lastLines) ==
    IF lastLines > 0
    THEN join(SliceLast(SplitLines(stdout, 1, <<>>), lastLines), <<"\n">>)
    ELSE stdout

\* a getJobOutput call on the captured text, and the same call without
\* lastLines
O_getJobOutput ==
    /\ ~cap.done
    /\ cap' = [cap EXCEPT
                  !.output = getJobOutput(stdoutOf(cap.raw, cap.rev), cap.last),
                  !.full   = getJobOutput(stdoutOf(cap.raw, cap.rev), 0),
                  !.done   = TRUE]
    /\ UNCHANGED <<tm, nextId, defaultKeepAlive, last, streak, io, spawn, calls, start, sends, pane>>

\* every captured text, either revision, lastLines left out (0) or given
InitO ==
    /\ tm = NoSession
    /\ nextId = [p \in PrefixesB |-> 0]
    /\ defaultKeepAlive = FALSE
    /\ last = NoCall("init")
    /\ streak = NoStreak
    /\ io = Idle
    /\ spawn = NoSpawn
    /\ calls = NoCalls
    /\ start = NoStart
    /\ sends = NoSends
    /\ pane = <<>>
    /\ cap \in {Capture(b, rev, n, <<>>, <<>>, FALSE) :
                   b \in Buffers, rev \in {"A", "T"}, n \in 0..MaxLast}

NextO == O_getJobOutput

SpecO == InitO /\ [][NextO]_vars

-----------------------------------------------------------------------------
(* createJob, its commands apart, called by two callers at a time *)

\* the other caller
Other(c) == CHOOSE d \in Callers : d # c

\* a caller may start a call when its last one is over
Free(c) == calls[c].pc \in {"idle", "returned", "thrown"}

\* the other call stands between its listing and its new-window, with the
\* same argument and the same listing
Races(c) ==
    /\ calls[Other(c)].pc = "listed"
    /\ calls[Other(c)].arg = calls[c].arg
    /\ calls[Other(c)].snap = calls[c].snap

\* new-window has run for caller c
Created(c) ==
    [calls EXCEPT ![c].pc = "created",
                  ![c].race = @ \/ Races(c),
                  ![Other(c)].race = @ \/ Races(c)]

\* the call of caller c is over
Over(c, pc, err) == [calls EXCEPT ![c].pc = pc, ![c].err = err]

\* the prefix of the racing createJob calls (revision A)
PrefixesR == {<<"j">>}

\* revision A, createJob up to its id: ensureSession, listJobs, maxId + 1
R_list(c, p) ==
    LET s1   == ensureSession(tm)
        jobs == JobIds(listJobs(s1))
    IN  /\ Free(c)
        /\ PlusOne(MaxId(jobs, p)) <= MaxSuffix
        /\ tm' = s1
        /\ calls' = [calls EXCEPT
                        ![c] = CallRec("listed", p, jobs, NextIdA(jobs, p), "", FALSE)]
        /\ last' = NoCall("pending")
        /\ streak' = NoStreak
        /\ UNCHANGED <<nextId, defaultKeepAlive, io, cap, spawn, start, sends, pane>>

\* new-window -d -n id: tmux gives the window the name it is asked for,
\* whether or not another window carries it
R_create(c) ==
    /\ calls[c].pc = "listed"
    /\ IF ~tm.exists
       THEN /\ tm' = tm
            /\ calls' = Over(c, "thrown", "tmux")
            /\ last' = Thrown("createJob", calls[c].arg, "tmux")
       ELSE /\ HasFree(tm)
            /\ tm' = NewWindow(tm, calls[c].id)
            /\ calls' = Created(c)
            /\ last' = NoCall("pending")
    /\ streak' = NoStreak
    /\ UNCHANGED <<nextId, defaultKeepAlive, io, cap, spawn, start, sends, pane>>

\* display-message -p -t sid:id "#{pane_pid}", kill.push(pid), return
R_finish(c) ==
    LET w == Resolve(tm, calls[c].id)
    IN  /\ calls[c].pc = "created"
        /\ IF w = -1
           THEN /\ tm' = tm
                /\ calls' = Over(c, "thrown", "tmux")
                /\ last' = Thrown("createJob", calls[c].arg, "tmux")
           ELSE /\ tm' = IF defaultKeepAlive THEN tm
                         ELSE [tm EXCEPT !.wins[w].inKill = TRUE]
                /\ calls' = Over(c, "returned", "")
                /\ last' = Call("createJob", calls[c].arg, <<calls[c].id>>)
        /\ streak' = NoStreak
        /\ UNCHANGED <<nextId, defaultKeepAlive, io, cap, spawn, start, sends, pane>>

\* the job id of the racing createJob calls (revision T)
JobIdsR == {<<"a">>}

\* revision T, createJob up to its check: ensureSession, list-windows,
\* existingJobs.includes(id)
TR_check(c, id) ==
    LET e == T_ensure(tm)
    IN  /\ Free(c)
        /\ ~tm.exists \/ Resolve(tm, WINDOW) # -1 \/ HasFree(tm)
        /\ tm' = e.s
        /\ IF ~e.ok
           THEN /\ calls' = [calls EXCEPT
                                ![c] = CallRec("thrown", id, {}, id, "tmux", FALSE)]
                /\ last' = Thrown("createJob", id, "tmux")
           ELSE IF id \in WindowNames(e.s)
           THEN /\ calls' = [calls EXCEPT
                                ![c] = CallRec("thrown", id, WindowNames(e.s), id,
                                               "exists", FALSE)]
                /\ last' = Thrown("createJob", id, "exists")
           ELSE /\ calls' = [calls EXCEPT
                                ![c] = CallRec("listed", id, WindowNames(e.s), id,
                                               "", FALSE)]
                /\ last' = NoCall("pending")
        /\ streak' = NoStreak
        /\ UNCHANGED <<nextId, defaultKeepAlive, io, cap, spawn, start, sends, pane>>

\* select-window -t tmuxer:id, choose-tree, return
TR_select(c) ==
    /\ calls[c].pc = "created"
    /\ tm' = tm
    /\ IF Resolve(tm, calls[c].id) = -1
       THEN /\ calls' = Over(c, "thrown", "tmux")
            /\ last' = Thrown("createJob", calls[c].arg, "tmux")
       ELSE /\ calls' = Over(c, "returned", "")
            /\ last' = Call("createJob", calls[c].arg, <<calls[c].id>>)
    /\ streak' = NoStreak
    /\ UNCHANGED <<nextId, defaultKeepAlive, io, cap, spawn, start, sends, pane>>

-----------------------------------------------------------------------------
(* createJob (revision B): the environment of the new window *)

TMUX == <<"T", "M", "U", "X">>

\* the names an env option may hold, in the order the caller wrote them
EnvNames == <<TMUX, <<"A">>, <<"B">>>>

\* the values: empty, a letter, a single quote
EnvValues == {<<>>, <<"x">>, <<"'">>}

\* the env options createJob is called with: left out, or a map over some
\* of the names
EnvOptions ==
    {NoEnv} \cup
    UNION {{[set |-> TRUE, map |-> f] : f \in [N -> EnvValues]} :
              N \in SUBSET {EnvNames[k] : k \in 1..Len(EnvNames)}}

\* env: e = { TMUX: '', ...opts.env }: the default of the destructuring
\* pattern, taken when opts.env is undefined
EnvOf(given) == IF given.set THEN given.map ELSE (TMUX :> <<>>)

\* Object.entries(e).map(([k, v]) => `-e ${k}=${esc(v)}`), from the k-th
\* name on
RECURSIVE EnvFlags(_, _)
EnvFlags(e, k) ==
    IF k > Len(EnvNames) THEN <<>>
    ELSE (IF EnvNames[k] \in DOMAIN e
          THEN <<(<<"-", "e", " ">> \o EnvNames[k] \o <<"=">>
                     \o esc(e[EnvNames[k]]))>>
          ELSE <<>>) \o EnvFlags(e, k + 1)

\* the value of TMUX in the pane new-window starts, given the words of its
\* -e flags from the k-th on: tmux sets TMUX to its socket for every pane,
\* a flag -e TMUX=value replaces it; cur is the value so far
RECURSIVE TmuxVar(_, _, _)
TmuxVar(words, k, cur) ==
    IF k + 1 > Len(words) THEN cur
    ELSE IF words[k] = <<"-", "e">> /\ startsWith(words[k + 1], TMUX \o <<"=">>)
    THEN TmuxVar(words, k + 2, slice(words[k + 1], Len(TMUX) + 1))
    ELSE TmuxVar(words, k + 1, cur)

\* the socket tmux puts in TMUX
Socket == <<"s">>

\* createJob as far as the -e flags of its new-window command: env.join(' ')
\* is read by /bin/sh
B_spawn ==
    /\ ~spawn.done
    /\ spawn' = [spawn EXCEPT
                    !.flags = sh(join(EnvFlags(EnvOf(spawn.given), 1), <<" ">>)).words,
                    !.done  = TRUE]
    /\ UNCHANGED <<tm, nextId, defaultKeepAlive, last, streak, io, cap, calls, start, sends, pane>>

InitE ==
    /\ tm = NoSession
    /\ nextId = [p \in PrefixesB |-> 0]
    /\ defaultKeepAlive = FALSE
    /\ last = NoCall("init")
    /\ streak = NoStreak
    /\ io = Idle
    /\ cap = NoCapture
    /\ calls = NoCalls
    /\ start = NoStart
    /\ sends = NoSends
    /\ pane = <<>>
    /\ spawn \in {Spawn(g, <<>>, FALSE) : g \in EnvOptions}

NextE == B_spawn

SpecE == InitE /\ [][NextE]_vars

-----------------------------------------------------------------------------
(* The environment: the jobs' processes and other users of the tmux server *)

\* the command of a job exits
ProcessExit(i, code) ==
    /\ tm.exists /\ i \in Indices(tm)
    /\ tm.wins[i].job /\ ~tm.wins[i].dead
    /\ tm' = PaneExit(tm, i, code)
    /\ last' = NoCall("exit")
    /\ streak' = NoStreak
    /\ UNCHANGED <<io, cap, spawn, calls, start, sends, pane>>
    /\ UNCHANGED <<nextId, defaultKeepAlive>>

\* somebody else kills the window of a job, or the whole session
ExternalKillWindow(i) ==
    /\ tm.exists /\ i \in Indices(tm) /\ i # 0
    /\ tm' = KillWindow(tm, i)
    /\ last' = NoCall("external")
    /\ streak' = NoStreak
    /\ UNCHANGED <<io, cap, spawn, calls, start, sends, pane>>
    /\ UNCHANGED <<nextId, defaultKeepAlive>>

ExternalKillSession ==
    /\ tm.exists
    /\ tm' = NoSession
    /\ last' = NoCall("external")
    /\ streak' = NoStreak
    /\ UNCHANGED <<io, cap, spawn, calls, start, sends, pane>>
    /\ UNCHANGED <<nextId, defaultKeepAlive>>

\* somebody else creates the session before the manager does: one window
\* running a shell, and none of the manager's hooks
ExternalNewSession ==
    /\ ~tm.exists
    /\ tm' = [exists |-> TRUE,
              wins   |-> (0 :> Win(ShellName, FALSE, 0, FALSE, FALSE)),
              hook   |-> FALSE]
    /\ last' = NoCall("external")
    /\ streak' = NoStreak
    /\ UNCHANGED <<io, cap, spawn, calls, start, sends, pane>>
    /\ UNCHANGED <<nextId, defaultKeepAlive>>

Environment ==
    \/ \E i \in 0..MaxIndex, c \in ExitCodes : ProcessExit(i, c)
    \/ \E i \in 0..MaxIndex : ExternalKillWindow(i)
    \/ ExternalKillSession
    \/ ExternalNewSession

-----------------------------------------------------------------------------
(* Revision A: createJob after new-window, the pid query and the startup wait *)

\* while (!output.trim() && attempts++ < 50): the number of polls allowed
MaxPolls == 50

\* the texts display-message prints for #{pane_pid}, trimmed
PidTexts == UNION {[1..n -> {"1", "2", "a"}] : n \in 0..MaxPid}

\* the texts capture-pane prints: nothing, white space only, some output
CaptureTexts == {<<>>, <<" ", "\n">>, <<"a", "\n">>}

\* the loop condition, one poll too many
PollingOneMore(output, attempts) ==
    trim(output) = <<>> /\ attempts <= MaxPolls

\* !output.trim() && attempts++ < 50, with attempts before the increment
Polling(output, attempts) ==
    trim(output) = <<>> /\ attempts < MaxPolls

\* const pid = +(await tmux(`display-message ...`)); if (isNaN(pid)) throw
\* new Error(`Failed to get PID ...`); if (!keepAlive) kill.push(pid)
W_pid ==
    /\ start.pc = "pid"
    /\ LET pid == Number(start.text)
       IN  IF pid = NaN
           THEN /\ start' = [start EXCEPT !.pc = "thrown", !.err = "pid"]
                /\ last' = Thrown("createJob", <<>>, "pid")
           ELSE /\ start' = [start EXCEPT
                                !.pc = "capture",
                                !.pid = pid,
                                !.kill = IF start.keepAlive THEN @
                                         ELSE Append(@, pid)]
                /\ UNCHANGED last
    /\ UNCHANGED <<tm, nextId, defaultKeepAlive, streak, io, cap, spawn, calls,
                   sends, pane>>

\* let output = await tmux(`capture-pane ...`); let attempts = 0; the
\* command prints raw, which the tmux helper trims
W_capture(raw) ==
    /\ start.pc = "capture"
    /\ start' = [start EXCEPT !.pc = "wait", !.output = trim(raw),
                              !.attempts = 0, !.captures = 1]
    /\ UNCHANGED <<tm, nextId, defaultKeepAlive, last, streak, io, cap, spawn,
                   calls, sends, pane>>

\* one turn of the loop: the condition holds, attempts is incremented, and
\* after the sleep capture-pane runs again
W_poll(raw) ==
    /\ start.pc = "wait"
    /\ Polling(start.output, start.attempts)
    /\ start' = [start EXCEPT !.output = trim(raw),
                              !.attempts = @ + 1,
                              !.captures = @ + 1]
    /\ UNCHANGED <<tm, nextId, defaultKeepAlive, last, streak, io, cap, spawn,
                   calls, sends, pane>>

\* a capture-pane command fails (the window is gone): createJob throws
W_fail ==
    /\ start.pc \in {"capture", "wait"}
    /\ start.pc = "wait" => Polling(start.output, start.attempts)
    /\ start' = [start EXCEPT !.pc = "thrown", !.err = "tmux"]
    /\ last' = Thrown("createJob", <<>>, "tmux")
    /\ UNCHANGED <<tm, nextId, defaultKeepAlive, streak, io, cap, spawn, calls,
                   sends, pane>>

\* the condition fails (attempts++ still runs when the output is blank):
\* return { jobId: id, pid, output }
W_return ==
    /\ start.pc = "wait"
    /\ ~Polling(start.output, start.attempts)
    /\ start' = [start EXCEPT
                    !.pc = "returned",
                    !.attempts = IF trim(start.output) = <<>> THEN @ + 1
                                 ELSE @]
    /\ last' = Call("createJob", <<>>, start.output)
    /\ UNCHANGED <<tm, nextId, defaultKeepAlive, streak, io, cap, spawn, calls,
                   sends, pane>>

\* new-window has run: every text of the pid query, keepAlive on or off
InitW ==
    /\ tm = NoSession
    /\ nextId = [p \in PrefixesB |-> 0]
    /\ defaultKeepAlive = FALSE
    /\ last = NoCall("init")
    /\ streak = NoStreak
    /\ io = Idle
    /\ cap = NoCapture
    /\ spawn = NoSpawn
    /\ calls = NoCalls
    /\ sends = NoSends
    /\ pane = <<>>
    /\ start \in {Start("pid", t, ka, 0, <<>>, <<>>, 0, 0, "") :
                     t \in PidTexts, ka \in BOOLEAN}

NextW ==
    \/ W_pid
    \/ \E raw \in CaptureTexts : W_capture(raw)
    \/ \E raw \in CaptureTexts : W_poll(raw)
    \/ W_fail
    \/ W_return

SpecW == InitW /\ [][NextW]_vars

\* the event loop runs every pending step of the call
SpecWL == SpecW /\ WF_vars(NextW)

-----------------------------------------------------------------------------
(* Revision A: sendInput, called by two callers at a time for one job *)

\* the job both callers send to
JobIdsI == {<<"j", "1">>}

\* the inputs of the two callers
InputsI == { <<"a", "{", "E", "}">>, <<"{", "E", "}", "b">> }

\* a caller may start a sendInput call when its last one is over
FreeI(c) == sends[c].pc \in {"idle", "returned", "thrown"}

\* the commands in the log that caller c's call had tmux run
RECURSIVE Of(_, _)
Of(log, c) ==
    IF log = <<>> THEN <<>>
    ELSE (IF Head(log).c = c THEN <<Head(log).inv>> ELSE <<>>)
             \o Of(Tail(log), c)

\* the log without the commands of caller c
RECURSIVE NotOf(_, _)
NotOf(log, c) ==
    IF log = <<>> THEN <<>>
    ELSE (IF Head(log).c = c THEN <<>> ELSE <<Head(log)>>)
             \o NotOf(Tail(log), c)

\* a server that runs the latest command ahead of those it ran before
DeliverAhead(log, c, inv) == <<[c |-> c, inv |-> inv]>> \o log

\* tmux runs the commands it receives one after the other
Deliver(log, c, inv) == Append(log, [c |-> c, inv |-> inv])

\* sendInput up to its loop: the job is looked up in listJobs; the log
\* keeps the commands of a caller's latest call only
I_begin(c, id, input) ==
    /\ FreeI(c)
    /\ IF ~HasJob(listJobs(tm), id)
       THEN /\ sends' = [sends EXCEPT ![c] = Io("thrown", id, input, 0, <<>>)]
            /\ last' = Thrown("sendInput", <<id, input>>, "notfound")
       ELSE /\ sends' = [sends EXCEPT ![c] = Io("sendInput", id, input, 0, <<>>)]
            /\ last' = NoCall("pending")
    /\ pane' = NotOf(pane, c)
    /\ streak' = NoStreak
    /\ UNCHANGED <<tm, nextId, defaultKeepAlive, io, cap, spawn, calls, start>>

\* one turn of the loop that sends: await tmux(`send-keys -t ${paneId}
\* ${value}`); the next turn starts when the command is over
I_send(c) ==
    LET parts == Parts(sends[c].input)
        k     == NextPart(parts, sends[c].k + 1)
        r     == sh(SendValue(parts, k))
        w     == Resolve(tm, sends[c].id)
    IN  /\ sends[c].pc = "sendInput"
        /\ k <= Len(parts)
        /\ IF ~r.ok \/ w = -1
           THEN /\ sends' = [sends EXCEPT ![c].pc = "thrown"]
                /\ last' = Thrown("sendInput", <<sends[c].id, sends[c].input>>,
                                  "tmux")
                /\ UNCHANGED pane
           ELSE /\ sends' = [sends EXCEPT
                                ![c].k = k,
                                ![c].sent = Append(@, Invocation(w, r.words))]
                /\ pane' = Deliver(pane, c, Invocation(w, r.words))
                /\ last' = NoCall("pending")
        /\ streak' = NoStreak
        /\ UNCHANGED <<tm, nextId, defaultKeepAlive, io, cap, spawn, calls,
                       start>>

\* the loop is over: the sleep, capture-pane and the return
I_end(c) ==
    LET parts == Parts(sends[c].input)
    IN  /\ sends[c].pc = "sendInput"
        /\ NextPart(parts, sends[c].k + 1) > Len(parts)
        /\ IF Resolve(tm, sends[c].id) = -1
           THEN /\ sends' = [sends EXCEPT ![c].pc = "thrown"]
                /\ last' = Thrown("sendInput", <<sends[c].id, sends[c].input>>,
                                  "tmux")
           ELSE /\ sends' = [sends EXCEPT ![c].pc = "returned"]
                /\ last' = Call("sendInput", <<sends[c].id, sends[c].input>>,
                                sends[c].sent)
        /\ streak' = NoStreak
        /\ UNCHANGED <<tm, nextId, defaultKeepAlive, io, cap, spawn, calls,
                       start, pane>>

-----------------------------------------------------------------------------
(* Revision A: ensureSession, its commands apart, called by two callers *)

\* if (!(await noSession(sid))) return sid; a caller that finds no session
\* goes on ("absent"), and races when the other caller stands there too
N_check(c) ==
    /\ Free(c)
    /\ IF tm.exists
       THEN /\ calls' = [calls EXCEPT
                            ![c] = CallRec("returned", <<>>, <<>>, <<>>, "",
                                           FALSE)]
            /\ last' = Call("ensureSession", <<>>, <<>>)
       ELSE /\ calls' = [calls EXCEPT
                            ![c] = CallRec("absent", <<>>, <<>>, <<>>, "",
                                           calls[Other(c)].pc = "absent"),
                            ![Other(c)].race =
                                @ \/ calls[Other(c)].pc = "absent"]
            /\ last' = NoCall("pending")
    /\ streak' = NoStreak
    /\ UNCHANGED <<tm, nextId, defaultKeepAlive, io, cap, spawn, start, sends,
                   pane>>

\* await tmux(`new-session -d -s ${sid} ...`): tmux refuses a session name
\* that is taken
N_new(c) ==
    /\ calls[c].pc = "absent"
    /\ IF tm.exists
       THEN /\ tm' = tm
            /\ calls' = Over(c, "thrown", "duplicate")
            /\ last' = Thrown("ensureSession", <<>>, "duplicate")
       ELSE /\ tm' = [exists |-> TRUE,
                      wins   |-> (0 :> Win(ShellName, FALSE, 0, FALSE, FALSE)),
                      hook   |-> FALSE]
            /\ calls' = [calls EXCEPT ![c].pc = "made"]
            /\ last' = NoCall("pending")
    /\ streak' = NoStreak
    /\ UNCHANGED <<nextId, defaultKeepAlive, io, cap, spawn, start, sends,
                   pane>>

\* await tmux(`set-hook -t ${sid} after-new-window ...`); return sid
N_hook(c) ==
    /\ calls[c].pc = "made"
    /\ IF ~tm.exists
       THEN /\ tm' = tm
            /\ calls' = Over(c, "thrown", "tmux")
            /\ last' = Thrown("ensureSession", <<>>, "tmux")
       ELSE /\ tm' = [tm EXCEPT !.hook = TRUE]
            /\ calls' = Over(c, "returned", "")
            /\ last' = Call("ensureSession", <<>>, <<>>)
    /\ streak' = NoStreak
    /\ UNCHANGED <<nextId, defaultKeepAlive, io, cap, spawn, start, sends,
                   pane>>

-----------------------------------------------------------------------------
(* Specifications *)

Init ==
    /\ tm = NoSession
    /\ nextId = [p \in PrefixesB |-> 0]
    /\ defaultKeepAlive = FALSE
    /\ last = NoCall("init")
    /\ streak = NoStreak
    /\ io = Idle
    /\ cap = NoCapture
    /\ spawn = NoSpawn
    /\ calls = NoCalls
    /\ start = NoStart
    /\ sends = NoSends
    /\ pane = <<>>

NextB ==
    \/ B_ensureSession
    \/ \E p \in PrefixesB : B_createJob(p)
    \/ \E ids \in IdLists(tm) : B_cleanupJobs(ids)
    \/ B_restart
    \/ Environment

SpecB == Init /\ [][NextB]_vars

NextA ==
    \/ A_ensureSession
    \/ \E p \in PrefixesA, ka \in KeepAliveArgs : A_createJob(p, ka)
    \/ \E ids \in IdLists(tm) : A_cleanupJobs(ids)
    \/ Environment

SpecA == Init /\ [][NextA]_vars

\* revision A with two ensureSession calls in flight
NextN ==
    \/ \E c \in Callers : N_check(c)
    \/ \E c \in Callers : N_new(c)
    \/ \E c \in Callers : N_hook(c)
    \/ \E p \in PrefixesR : A_createJob(p, "undefined")
    \/ Environment

SpecN == Init /\ [][NextN]_vars

\* revision A with two sendInput calls in flight
NextI ==
    \/ \E p \in PrefixesR : A_createJob(p, "undefined")
    \/ \E c \in Callers, id \in JobIdsI, input \in InputsI :
           I_begin(c, id, input)
    \/ \E c \in Callers : I_send(c)
    \/ \E c \in Callers : I_end(c)
    \/ Environment

SpecI == Init /\ [][NextI]_vars

\* revision A with two createJob calls in flight
NextR ==
    \/ \E c \in Callers, p \in PrefixesR : R_list(c, p)
    \/ \E c \in Callers : R_create(c)
    \/ \E c \in Callers : R_finish(c)
    \/ Environment

SpecR == Init /\ [][NextR]_vars

\* revision T with two createJob calls in flight; new-window is the same
\* command in both revisions
NextTR ==
    \/ \E c \in Callers, id \in JobIdsR : TR_check(c, id)
    \/ \E c \in Callers : R_create(c)
    \/ \E c \in Callers : TR_select(c)
    \/ Environment

SpecTR == Init /\ [][NextTR]_vars

\* revision A with a cleanupJobs call in flight while other calls are made
NextC ==
    \/ \E p \in PrefixesR : A_createJob(p, "undefined")
    \/ \E ids \in IdLists(tm) : A_cleanupJobs(ids)
    \/ \E ids \in IdLists(tm) : A_cleanup_begin(ids)
    \/ \E j \in 1..MaxJobIds : A_cleanup_kill(j)
    \/ A_cleanup_end
    \/ Environment

SpecC == Init /\ [][NextC]_vars

\* revision A with the exit of the manager process
NextX ==
    \/ A_ensureSession
    \/ \E p \in PrefixesA, ka \in KeepAliveArgs : A_createJob(p, ka)
    \/ \E ids \in IdLists(tm) : A_cleanupJobs(ids)
    \/ A_exit
    \/ Environment

SpecX == Init /\ [][NextX]_vars

\* revision A with listJobs as the two commands it runs; the caller makes one
\* call at a time, the environment moves at any time
NextL ==
    \/ io = Idle /\ A_ensureSession
    \/ io = Idle /\ \E p \in PrefixesA, ka \in KeepAliveArgs : A_createJob(p, ka)
    \/ A_listJobs_check
    \/ A_listJobs_query
    \/ Environment

SpecL == Init /\ [][NextL]_vars

\* revision B with getJobOutput and with sendInput command by command; the
\* caller makes one call at a time, the environment moves at any time
NextS ==
    \/ io = Idle /\ B_ensureSession
    \/ io = Idle /\ \E p \in PrefixesS : B_createJob(p)
    \/ io = Idle /\ \E ids \in IdLists(tm) : B_cleanupJobs(ids)
    \/ io = Idle /\ B_restart
    \/ io = Idle /\ \E id \in ProbeIds(tm) : B_getJobOutput(id)
    \/ \E id \in ProbeIds(tm), input \in InputsB : B_sendInput_begin(id, input)
    \/ B_sendInput_send
    \/ B_sendInput_end
    \/ Environment

SpecS == Init /\ [][NextS]_vars

\* ---- sendInput of the revision with the noEscape flag ----

InputsP ==
    { <<"E">>,
      <<"E", " ", "E">>,
      <<"'", "E", "'">>,
      <<"E", "'">>,
      <<>> }

\* the mutant of Sending: the flag is ignored
SendingEscaped(input, noEscape) == <<"-", "l", " ">> \o esc(input)

\* const sending = noEscape ? input : `-l ${esc(input)}`
Sending(input, noEscape) ==
    IF noEscape THEN input ELSE <<"-", "l", " ">> \o esc(input)

\* copy-mode -q (its failure is swallowed), send-keys, choose-tree
P_sendInput(id, input, noEscape) ==
    LET r == sh(Sending(input, noEscape))
        w == Resolve(tm, id)
    IN  /\ last' = IF ~r.ok \/ w = -1
                   THEN Thrown("sendInput", <<id, input, noEscape>>, "tmux")
                   ELSE Call("sendInput", <<id, input, noEscape>>,
                             <<Invocation(w, r.words)>>)
        /\ streak' = NoStreak
        /\ UNCHANGED <<tm, nextId, defaultKeepAlive, io, cap, spawn, calls, start, sends, pane>>

NextP ==
    \/ T_ensureSession
    \/ \E id \in JobIdsT : T_createJob(id)
    \/ \E id \in JobIdsT : T_killJob(id)
    \/ \E id \in JobIdsT, input \in InputsP, noEscape \in BOOLEAN :
           P_sendInput(id, input, noEscape)
    \/ Environment

SpecP == Init /\ [][NextP]_vars

\* revision T with getJobStatus
NextQ ==
    \/ T_ensureSession
    \/ \E id \in JobIdsT : T_createJob(id)
    \/ \E id \in JobIdsT : T_killJob(id)
    \/ \E id \in JobIdsT : T_getJobStatus(id)
    \/ Environment

SpecQ == Init /\ [][NextQ]_vars

NextT ==
    \/ T_ensureSession
    \/ \E id \in JobIdsT : T_createJob(id)
    \/ \E id \in JobIdsT : T_killJob(id)
    \/ Environment

SpecT == Init /\ [][NextT]_vars

-----------------------------------------------------------------------------
(* Properties *)

\* id occurs in the list ids
InSeq(id, ids) == \E k \in 1..Len(ids) : ids[k] = id

\* the row of window i in a listing of revision A or B
RowOf(jobs, i) == jobs[CHOOSE k \in 1..Len(jobs) : jobs[k].idx = i]

Listed(jobs, i) == \E k \in 1..Len(jobs) : jobs[k].idx = i

\* listJobs reports the job of window i as exited with the given status
ReportedDead(s, i, code) ==
    /\ Listed(listJobs(s), i)
    /\ ~RowOf(listJobs(s), i).running
    /\ RowOf(listJobs(s), i).exitCode = code

\* C1 (revision B): a cleanupJobs call leaves every job that listJobs reports
\* as running at the time of the call listed under the same id, and returns
\* a `cleaned` list without that id.
C1_CleanupSparesRunningJobs ==
    [][last'.op = "cleanupJobs" =>
          \A k \in 1..Len(listJobs(tm)) :
              LET j == listJobs(tm)[k]
              IN  j.running =>
                      /\ Listed(listJobs(tm'), j.idx)
                      /\ RowOf(listJobs(tm'), j.idx).jobId = j.jobId
                      /\ ~InSeq(j.jobId, last'.ret)]_vars

\* C2 (revision A): when listJobs reports a job with running == false, a
\* cleanupJobs call with that job's id among its jobIds returns the id in
\* `cleaned`, and the listing after the call does not contain the id.
C2_CleanupRemovesDeadJobs ==
    [][\A ids \in IdLists(tm) :
          A_cleanupJobs(ids) =>
              \A k \in 1..Len(ids) :
                  (\E m \in 1..Len(listJobs(tm)) :
                       /\ listJobs(tm)[m].jobId = ids[k]
                       /\ ~listJobs(tm)[m].running)
                  => /\ InSeq(ids[k], last'.ret)
                     /\ ~HasJob(listJobs(tm'), ids[k])]_vars

\* C3 (revision B): every id in the `cleaned` list a cleanupJobs call returns
\* is the name of a window that was in the session before the call and is
\* gone after it.
C3_CleanedWereDestroyed ==
    [][last'.op = "cleanupJobs" =>
          \A k \in 1..Len(last'.ret) :
              \E i \in Indices(tm) \ Indices(tm') :
                  tm.wins[i].name = last'.ret[k]]_vars

\* C4 (revision T): right after killJob(id) has returned without error,
\* listJobs contains no job whose jobId is id.
C4_KilledJobNotListed ==
    (last.op = "killJob" /\ last.ok) => ~HasJob(listJobsT(tm), last.arg)

\* C5 (revision A): the jobId a createJob call returns is its prefix followed
\* by one or more decimal digits, and listJobs right after the call contains
\* that jobId.
C5_GeneratedIdMatchesPrefixPattern ==
    (last.op = "createJob" /\ last.ok) =>
        LET id == last.ret[1]
            p  == last.arg
        IN  /\ startsWith(id, p)
            /\ Len(id) > Len(p)
            /\ AllDigits(slice(id, Len(p)))
            /\ HasJob(listJobs(tm), id)

\* C6 (revision A): when a createJob call returns and an earlier createJob
\* call with the same prefix has returned with nothing but createJob calls in
\* between, the two jobIds differ and the numeric suffix of the later one is
\* the numeric suffix of the earlier one plus one.
C6_SamePrefixSuffixIncrements ==
    [][(last'.op = "createJob" /\ last'.ok /\ streak[last'.arg] # <<>>) =>
          LET p    == last'.arg
              num1 == Number(slice(streak[p], Len(p)))
              num2 == Number(slice(last'.ret[1], Len(p)))
          IN  /\ last'.ret[1] # streak[p]
              /\ num1 # NaN /\ num2 # NaN
              /\ num2 = num1 + 1]_vars

\* C7 (revision B): the jobId a createJob call returns is not the jobId of a
\* job that was listed when the call was made, also for jobs an earlier
\* manager process left in the session; and no two listed jobs ever share a
\* jobId.
C7_GeneratedIdsUnique ==
    /\ [][(last'.op = "createJob" /\ last'.ok) =>
             ~HasJob(listJobs(tm), last'.ret[1])]_vars
    /\ [](\A a, b \in 1..Len(listJobs(tm)) :
             a # b => listJobs(tm)[a].jobId # listJobs(tm)[b].jobId)

\* C8 (revision T): a createJob call whose jobId is the name of a window the
\* session holds at the time of the call fails with the "already exists"
\* error and creates no job window.
C8_ExistingNameRejected ==
    [][\A id \in JobIdsT :
          (T_createJob(id) /\ tm.exists /\ id \in WindowNames(tm)) =>
              /\ last'.err = "exists"
              /\ \A i \in Indices(tm') :
                     tm'.wins[i].job =>
                         i \in Indices(tm) /\ tm.wins[i] = tm'.wins[i]]_vars

\* C9 (revision T): a createJob call whose jobId is the name of no window of
\* the session, neither before nor after ensureSession has prepared it,
\* returns exactly that jobId, and listJobs right after contains a job with
\* that jobId.
C9_ExplicitIdReturnedAndListed ==
    [][\A id \in JobIdsT :
          (/\ T_createJob(id)
           /\ id \notin WindowNames(tm)
           /\ id \notin WindowNames(T_ensure(tm).s)) =>
              /\ last'.ok
              /\ last'.ret = <<id>>
              /\ HasJob(listJobsT(tm'), id)]_vars

\* C10 (revision B): when the command of a job exits, listJobs reports the
\* job with running == false and exitCode equal to the exit status, and goes
\* on reporting it so across every step that is neither a cleanupJobs call
\* nor a kill from outside.
C10_ExitIsReported ==
    [][/\ \A i \in 1..MaxIndex, c \in ExitCodes :
              ProcessExit(i, c) => ReportedDead(tm', i, c)
       /\ \A i \in 1..MaxIndex, c \in ExitCodes :
              (ReportedDead(tm, i, c)
                 /\ last'.op \notin {"cleanupJobs", "external"})
              => ReportedDead(tm', i, c)]_vars

\* C11 (revision A): when the command of a job that createJob created exits,
\* the job's window stays in the session and the job stays listed, also in a
\* session that somebody else created; and a listed job whose command has
\* exited stays listed across every step that is neither a cleanupJobs call
\* nor a kill from outside.
C11_WindowOutlivesProcess ==
    [][/\ \A i \in 1..MaxIndex, c \in ExitCodes :
              ProcessExit(i, c) =>
                  /\ i \in Indices(tm')
                  /\ tm'.wins[i].name = tm.wins[i].name
                  /\ Listed(listJobs(tm'), i)
       /\ \A i \in 1..MaxIndex :
              (/\ Listed(listJobs(tm), i)
               /\ tm.wins[i].job /\ tm.wins[i].dead
               /\ last'.op \notin {"cleanupJobs", "external"})
              => Listed(listJobs(tm'), i)]_vars

\* C12 (revision A): in every listing, a job's running is false exactly when
\* the dead flag of its pane is set, and the row has an exitCode field
\* exactly when running is false.
C12_RunningIffNotDead ==
    \A k \in 1..Len(listJobs(tm)) :
        LET j == listJobs(tm)[k]
        IN  /\ j.running = ~tm.wins[j.idx].dead
            /\ ("exitCode" \in DOMAIN j) = ~j.running

\* a listing that holds a running job and an exited job with its exitCode
C12_Witness ==
    \E a, b \in 1..Len(listJobs(tm)) :
        /\ listJobs(tm)[a].running
        /\ ~listJobs(tm)[b].running
        /\ listJobs(tm)[b].exitCode = 1

\* C14 (revision T): in every state the listing holds exactly the job
\* windows: the sentinel window named main is not returned as a job, and every
\* window createJob created is returned.
C14_ListIsExactlyTheJobs ==
    \A i \in Indices(tm) :
        /\ tm.wins[i].job => Listed(listJobsT(tm), i)
        /\ (~tm.wins[i].job /\ tm.wins[i].name = WINDOW)
               => ~Listed(listJobsT(tm), i)

\* C13 (revision A): a listJobs call never raises an error, and it returns
\* the empty list when the session does not exist, also when the session is
\* destroyed between the call's existence check and its window query.
C13_ListJobsNeverThrows ==
    last.op = "listJobs" => (last.ok /\ (~tm.exists => last.ret = <<>>))

\* C15 (revisions A and T): for every captured text and every lastLines
\* N > 0, the output of getJobOutput has at most N lines (the pieces between
\* line breaks), as many as N or as the whole output has, and they are the
\* last lines of what getJobOutput returns without lastLines.
C15_LastLinesAreASuffix ==
    (cap.done /\ cap.last > 0) =>
        LET all  == SplitLines(cap.full, 1, <<>>)
            got  == SplitLines(cap.output, 1, <<>>)
        IN  /\ Len(got) <= cap.last
            /\ Len(got) = (IF cap.last < Len(all) THEN cap.last ELSE Len(all))
            /\ \A k \in 1..Len(got) : got[k] = all[Len(all) - Len(got) + k]

\* a call that cuts lines off: lastLines 2 on a text of more than two lines
C15_Witness ==
    /\ cap.done /\ cap.last = 2
    /\ Len(SplitLines(cap.full, 1, <<>>)) > 2
    /\ cap.output # cap.full

\* C16 (revision B): a getJobOutput call for a jobId that listJobs does not
\* contain fails with the "not found" error and returns the text of no
\* window.
C16_UnknownJobHasNoOutput ==
    (last.op = "getJobOutput" /\ ~HasJob(listJobs(tm), last.arg)) =>
        /\ ~last.ok
        /\ last.err = "notfound"
        /\ last.ret = <<>>

\* a call refused although its target would have found a window to capture
C16_Witness ==
    /\ last.op = "getJobOutput"
    /\ last.err = "notfound"
    /\ Resolve(tm, last.arg) # -1

\* C17 (revision B): a sendInput call for a jobId that listJobs does not
\* contain fails with the "not found" error before any send-keys command; and
\* whenever a sendInput call fails, no send-keys command of it has been run.
C17_FailedSendDeliversNothing ==
    [][/\ \A id \in ProbeIds(tm), input \in InputsB :
              (B_sendInput_begin(id, input) /\ ~HasJob(listJobs(tm), id))
              => (last'.err = "notfound" /\ io' = Idle)
       /\ (last'.op = "sendInput" /\ ~last'.ok) => io.sent = <<>>]_vars

\* the indices of the segments that are not empty, among the first n
RECURSIVE NonEmpty(_, _)
NonEmpty(parts, n) ==
    IF n = 0 THEN <<>>
    ELSE NonEmpty(parts, n - 1) \o (IF parts[n] # <<>> THEN <<n>> ELSE <<>>)

\* the segments put together again, the key segments in braces
RECURSIVE Reassemble(_, _)
Reassemble(parts, n) ==
    IF n = 0 THEN <<>>
    ELSE Reassemble(parts, n - 1)
             \o (IF n % 2 = 0 THEN <<"{">> \o parts[n] \o <<"}">> ELSE parts[n])

\* C18 (revision B): the segments sendInput splits its input into are the
\* input cut at its {token} patterns; when the call returns, every send-keys
\* command it ran carried one segment, a segment at an even position as text
\* under -l and a segment at an odd position as a key name without -l; for
\* the input a{E} the text a was sent and then the key E.
C18_TextAndKeySegments ==
    (last.op = "sendInput" /\ last.ok) =>
        LET input == last.arg[2]
            parts == Parts(input)
            idx   == NonEmpty(parts, Len(parts))
        IN  /\ Reassemble(parts, Len(parts)) = input
            /\ \A j \in 1..Len(last.ret) :
                   /\ j <= Len(idx)
                   /\ last.ret[j].lit = ((idx[j] - 1) % 2 = 0)
                   /\ last.ret[j].keys = <<parts[idx[j]]>>
            /\ input = <<"a", "{", "E", "}">> =>
                   /\ Len(last.ret) = 2
                   /\ last.ret[1].lit /\ last.ret[1].keys = << <<"a">> >>
                   /\ ~last.ret[2].lit /\ last.ret[2].keys = << <<"E">> >>

\* the call with text and a key has returned
C18_Witness ==
    /\ last.op = "sendInput" /\ last.ok
    /\ last.arg[2] = <<"a", "{", "E", "}">>
    /\ Len(last.ret) = 2

\* C19 (revision B): while a sendInput call is in flight, the send-keys
\* commands run so far are those of the non-empty segments dealt with so far,
\* one each and in the order of the segments; a step runs at most one more
\* command and leaves the earlier ones as they are; and when the call
\* returns, one command has been run for each non-empty segment and none for
\* an empty one.
C19_OneSendPerSegmentInOrder ==
    /\ [](io.pc = "sendInput" =>
             LET parts == Parts(io.input)
                 idx   == NonEmpty(parts, io.k)
             IN  /\ Len(io.sent) = Len(idx)
                 /\ \A j \in 1..Len(idx) :
                        io.sent[j].keys = <<parts[idx[j]]>>)
    /\ []((last.op = "sendInput" /\ last.ok) =>
             LET parts == Parts(last.arg[2])
                 idx   == NonEmpty(parts, Len(parts))
             IN  /\ Len(last.ret) = Len(idx)
                 /\ \A j \in 1..Len(idx) :
                        last.ret[j].keys = <<parts[idx[j]]>>)
    /\ [][(io.pc = "sendInput" /\ io'.pc = "sendInput") =>
             /\ Len(io'.sent) <= Len(io.sent) + 1
             /\ SubSeq(io'.sent, 1, Len(io.sent)) = io.sent]_vars

\* a call whose input has empty segments around two keys has returned
C19_Witness ==
    /\ last.op = "sendInput" /\ last.ok
    /\ last.arg[2] = <<"{", "E", "}", "{", "E", "}">>
    /\ Len(Parts(last.arg[2])) = 5
    /\ Len(last.ret) = 2

\* C20 (revision with noEscape): a sendInput call that returns has run one
\* send-keys command; with noEscape set the command has no -l and the keys
\* it carries, put together with spaces, are the input string as it was
\* given; without noEscape the command has -l and carries the input string
\* as its one text.
C20_RawInputSentVerbatim ==
    (last.op = "sendInput" /\ last.ok /\ Len(last.arg) = 3) =>
        /\ Len(last.ret) = 1
        /\ IF last.arg[3]
           THEN /\ ~last.ret[1].lit
                /\ join(last.ret[1].keys, <<" ">>) = last.arg[2]
           ELSE /\ last.ret[1].lit
                /\ last.ret[1].keys = <<last.arg[2]>>

\* C21 (revisions T and A): a second ensureSession call right after a first
\* one leaves the session as the first one left it (its existence, its
\* windows with their options, its hook), whatever the first one started
\* from: no session, a session with its sentinel, a session made by somebody
\* else without the sentinel.
C21_EnsureSessionIdempotent ==
    /\ ensureSession(ensureSession(tm)) = ensureSession(tm)
    /\ (/\ last.op = "ensureSession"
        /\ ~tm.exists \/ Resolve(tm, WINDOW) # -1 \/ HasFree(tm))
       => T_ensure(tm).s = tm

\* the first call found a session without the sentinel: it made the
\* sentinel and removed window 0
C21_Witness ==
    /\ last.op = "ensureSession" /\ last.ok
    /\ tm.exists /\ 0 \notin Indices(tm)
    /\ Resolve(tm, WINDOW) # -1
    /\ ~tm.wins[Resolve(tm, WINDOW)].job

\* C22 (revision A): a createJob call that is not given keepAlive: true and
\* returns has put the pane of its new window in the kill list, whatever the
\* calls before it were given; and when the manager process exits, every pane
\* in the kill list whose process is alive gets the signal.
C22_UnkeptJobsAreSwept ==
    [][/\ \A p \in PrefixesA, ka \in {"undefined", "false"} :
              (A_createJob(p, ka) /\ last'.ok)
              => tm'.wins[FreeIndex(ensureSession(tm))].inKill
       /\ A_exit => \A i \in Indices(tm) :
                        (tm.wins[i].inKill /\ ~tm.wins[i].dead)
                        => InSeq(i, last'.ret)]_vars

C30_BatchSurvivesItemFailure ==
    [][/\ last'.op = "cleanupJobs"
          => /\ last'.ok
             /\ \A k \in 1..Len(last'.ret) :
                    LET exact == {i \in Indices(tm) :
                                     tm.wins[i].name = last'.ret[k]}
                    IN  /\ HasJob(listJobs(tm), last'.ret[k])
                        /\ Cardinality(exact) = 1
                           => \A i \in exact :
                                  \/ ~tm'.exists
                                  \/ i \notin Indices(tm')
       /\ last'.op = "sweep"
          => /\ last'.ok
             /\ \A i \in Indices(tm) :
                    (tm.wins[i].inKill /\ ~tm.wins[i].dead)
                    => InSeq(i, last'.ret)]_vars

\* cleanupJobs has returned two ids: the kill-window of one failed, two
\* windows carry its name still; the window of the other is gone
C30_Witness ==
    /\ last.op = "cleanupJobs" /\ last.ok /\ Len(last.ret) = 2
    /\ \E a, b \in 1..2 :
           /\ a # b
           /\ Cardinality({i \in Indices(tm) : tm.wins[i].name = last.ret[a]}) = 2
           /\ {i \in Indices(tm) : tm.wins[i].name = last.ret[b]} = {}

\* C24 (revision B): the pane of the window createJob creates starts with an
\* empty TMUX variable, whether the caller gave an env option or not.
C24_TmuxIsCleared ==
    spawn.done => TmuxVar(spawn.flags, 1, Socket) = <<>>

\* C25 (revision T): an ensureSession or createJob call leaves every window
\* of a job in the session, as it was.
C25_OnlyReaperDestroysJobs ==
    [][last'.op \in {"ensureSession", "createJob"}
       => \A i \in Indices(tm) :
              tm.wins[i].job
              => /\ tm'.exists
                 /\ i \in Indices(tm')
                 /\ tm'.wins[i] = tm.wins[i]]_vars

\* C26 (revision A): two createJob calls with the same prefix that read the
\* same listing, both before either ran its new-window, do not both return
\* the same jobId.
C26_RacingCallsReturnDistinctIds ==
    \A c \in Callers :
        (/\ calls[c].pc = "returned" /\ calls[Other(c)].pc = "returned"
         /\ calls[c].race /\ calls[Other(c)].race
         /\ calls[c].arg = calls[Other(c)].arg
         /\ calls[c].snap = calls[Other(c)].snap)
        => calls[c].id # calls[Other(c)].id

\* C27 (revision T): no two windows of jobs carry the same name; and of two
\* createJob calls that passed the check for the same id together, at most
\* one returns and one that throws throws "already exists".
C27_RaceLeavesOneWindow ==
    /\ \A i, k \in Indices(tm) :
           (i # k /\ tm.wins[i].job /\ tm.wins[k].job)
           => tm.wins[i].name # tm.wins[k].name
    /\ \A c \in Callers :
           (/\ calls[c].race /\ calls[Other(c)].race
            /\ calls[c].id = calls[Other(c)].id)
           => /\ ~(calls[c].pc = "returned" /\ calls[Other(c)].pc = "returned")
              /\ calls[c].pc = "thrown" => calls[c].err = "exists"

\* C28 (revision A): whatever calls are made while a cleanupJobs call is in
\* flight, every window its kill-window commands destroy holds a dead pane
\* at the moment it is destroyed.
C28_CleanupKillsOnlyDeadPanes ==
    io.pc = "cleanupJobs" => \A k \in 1..Len(io.sent) : io.sent[k].dead

\* C29 (revision T): getJobStatus returns, it never throws; when no window
\* carries the jobId, or there is no session, it returns running = false
\* with the error "Job not found" and neither pid nor exitCode; when one
\* window carries the jobId it returns the pid of that window's pane,
\* running exactly when the pane is not dead, and an exitCode exactly when
\* the pane is dead.
C29_StatusOfTheNamedJob ==
    last.op = "getJobStatus" =>
        LET r     == last.ret[1]
            named == {i \in Indices(tm) : tm.wins[i].name = last.arg}
        IN  /\ last.ok
            /\ (~tm.exists \/ named = {})
               => r = [jobId |-> last.arg, running |-> FALSE,
                       error |-> "Job not found"]
            /\ (tm.exists /\ Cardinality(named) = 1)
               => \A i \in named :
                      /\ "error" \notin DOMAIN r
                      /\ r.pid = i
                      /\ r.running = ~tm.wins[i].dead
                      /\ ("exitCode" \in DOMAIN r) = tm.wins[i].dead

\* C31 (revision B): a cleanupJobs call made right after a cleanupJobs call
\* with the same jobIds destroys no window, returns an empty `cleaned` list
\* and throws nothing, whatever the ids are.
C31_CleanupIsIdempotent ==
    [][\A ids \in IF last'.op = "cleanupJobs" THEN IdLists(tm) ELSE {} :
           B_cleanupJobs(ids)
           => LET again == CleanupLoop(listJobs(tm'), ids, 1, tm', <<>>, {})
              IN  /\ last'.ok
                  /\ again.s = tm'
                  /\ again.cleaned = <<>>]_vars

\* C32 (revision T): when ensureSession has returned without an error, the
\* session exists and holds a window named main.
C32_EnsuredSessionHasMain ==
    (last.op = "ensureSession" /\ last.ok) =>
        /\ tm.exists
        /\ \E i \in Indices(tm) : tm.wins[i].name = WINDOW

\* C37 (revision T): a killJob call leaves every window that is not named
\* jobId as it was; and when no window is named jobId, the call throws and
\* the session is as it was.
C37_KillJobKillsTheNamedWindow ==
    [][last'.op = "killJob"
       => /\ \A i \in Indices(tm) :
                 tm.wins[i].name # last'.arg
                 => /\ tm'.exists
                    /\ i \in Indices(tm')
                    /\ tm'.wins[i] = tm.wins[i]
          /\ (\A i \in Indices(tm) : tm.wins[i].name # last'.arg)
             => (~last'.ok /\ tm' = tm)]_vars

\* C33 (revision A): the startup wait ends: createJob runs capture-pane at
\* most 51 times, runs it no more once a capture was not blank, and the
\* call comes to its end (it returns, or throws when a command failed); when
\* it returns, the last capture was not blank or was the 51st.
C33_StartupWaitTerminates ==
    /\ [](start.captures <= MaxPolls + 1)
    /\ [](start.pc = "returned"
          => (trim(start.output) # <<>> \/ start.captures = MaxPolls + 1))
    /\ [][(start.pc = "wait" /\ trim(start.output) # <<>>)
          => (start'.captures = start.captures /\ start'.pc = "returned")]_vars
    /\ <>(start.pc \in {"returned", "thrown"})

\* a job that never wrote: createJob has returned after 51 blank captures
C33_Witness ==
    /\ start.pc = "returned"
    /\ start.captures = MaxPolls + 1
    /\ trim(start.output) = <<>>

\* C34 (revision A): when the pid query printed an empty text or a text
\* that is not a number, createJob throws the pid error and the kill list
\* holds no pid.
C34_NoPidNoKillEntry ==
    (start.pc \notin {"idle", "pid"}
       /\ (start.text = <<>> \/ ~AllDigits(start.text)))
    => /\ start.pc = "thrown"
       /\ start.err = "pid"
       /\ start.kill = <<>>

\* C35 (revision A): with two sendInput calls for one job in flight, the
\* send-keys commands tmux has run for either call are those of the call's
\* non-empty segments dealt with so far, one each and in the order of the
\* segments, whatever the other call has sent in between; a call that has
\* returned has had one command run for each of its non-empty segments.
C35_EachCallKeepsItsOrder ==
    \A c \in Callers :
        sends[c].pc \in {"sendInput", "returned"} =>
            LET parts == Parts(sends[c].input)
                idx   == NonEmpty(parts, sends[c].k)
                mine  == Of(pane, c)
            IN  /\ Len(mine) = Len(idx)
                /\ \A j \in 1..Len(idx) : mine[j].keys = <<parts[idx[j]]>>
                /\ sends[c].pc = "returned" =>
                       idx = NonEmpty(parts, Len(parts))

\* both calls have returned, and tmux ran their commands in turns
C35_Witness ==
    /\ \A c \in Callers : sends[c].pc = "returned"
    /\ sends[1].id = sends[2].id
    /\ Len(pane) = 4
    /\ pane[1].c = 1 /\ pane[2].c = 2 /\ pane[3].c = 1 /\ pane[4].c = 2

\* C36 (revision A): a call of ensureSession that found the session absent
\* while the other caller's call had found it absent too is not refused by
\* new-session.
C36_RacingEnsureSessionSucceeds ==
    \A c \in Callers :
        calls[c].race => ~(calls[c].pc = "thrown" /\ calls[c].err = "duplicate")

=============================================================================
